---- MODULE Spec2Model ----
(***************************************************************************)
(* Model of package hosts (src/hostsfile/hostsfile.go): a Hostsfile holds  *)
(* a table of host entries loaded from a hosts file, serves FindHosts and  *)
(* FindReverse under a reader/writer mutex, and reloads the table from a   *)
(* poll loop when the file's modification time or size changes.            *)
(***************************************************************************)
EXTENDS Integers, Sequences, FiniteSets, TLC

(* ------------------------------ bounds --------------------------------- *)

\* Number of times the hosts file is rewritten after the model starts.
MaxWrites == 1

\* Number of goroutines calling FindHosts / FindReverse.
NumReaders == 1

Readers == 1..NumReaders

(* --------------------------- strings and names ------------------------- *)
\* A Go string is a sequence of one-character strings.

EmptyString == <<>>

ToLowerChar(c) ==
    IF c = "F" THEN "f" ELSE IF c = "O" THEN "o" ELSE c

ToLower(s) == [i \in 1..Len(s) |-> ToLowerChar(s[i])]

\* strings.TrimSuffix(s, "."): removes one trailing "." when there is one.
TrimSuffixDot(s) ==
    IF Len(s) > 0 /\ s[Len(s)] = "." THEN SubSeq(s, 1, Len(s) - 1) ELSE s

\* dns.Fqdn(s): s itself when it already ends in ".", else s with "." added.
Fqdn(s) ==
    IF Len(s) > 0 /\ s[Len(s)] = "." THEN s ELSE Append(s, ".")

(* ------------------------------ addresses ------------------------------ *)
\* A net.IP is kept in its 16-byte form; an IPv4 address a.b.c.d is the
\* IPv4-mapped value 0:0:0:0:0:ffff:a.b.c.d, as net.ParseIP returns it.

V4(a, b, c, d) == <<0, 0, 0, 0, 0, 0, 0, 0, 0, 0, 255, 255, a, b, c, d>>

IsV4(ip) ==
    /\ \A i \in 1..10 : ip[i] = 0
    /\ ip[11] = 255
    /\ ip[12] = 255

\* net.IP.String(): dotted quad (the four last bytes) for an IPv4 or
\* IPv4-mapped address, the sixteen bytes in hexadecimal otherwise.
IPString(ip) ==
    IF IsV4(ip) THEN [fam |-> 4, b |-> SubSeq(ip, 13, 16)]
                ELSE [fam |-> 6, b |-> ip]

Reverse(s) == [i \in 1..Len(s) |-> s[Len(s) + 1 - i]]

\* The two hexadecimal digits of every byte, high digit first.
Nibbles(bs) ==
    [i \in 1..(2 * Len(bs)) |->
        IF i % 2 = 1 THEN bs[(i + 1) \div 2] \div 16 ELSE bs[i \div 2] % 16]

\* dns.ReverseAddr(text): the octets reversed under in-addr.arpa. for IPv4,
\* the nibbles reversed under ip6.arpa. for IPv6.
ReverseAddr(text) ==
    IF text.fam = 4
    THEN [labels |-> Reverse(text.b), zone |-> "in-addr.arpa."]
    ELSE [labels |-> Reverse(Nibbles(text.b)), zone |-> "ip6.arpa."]

(* ------------------------------ hosts file ----------------------------- *)
\* File content is a sequence of lines.  A line is a comment, a blank line
\* or a record of an address field and hostname fields; an address field
\* that is no IP address has ip = <<>>.

CommentLine == [kind |-> "comment", ip |-> <<>>, names |-> <<>>]
BlankLine == [kind |-> "blank", ip |-> <<>>, names |-> <<>>]
RecordLine(ip, names) == [kind |-> "record", ip |-> ip, names |-> names]

BadIP == <<>>
LoopbackIP == V4(127, 0, 0, 1)
FooIP == V4(10, 0, 0, 5)
SixIP == <<32, 1, 13, 184, 0, 0, 0, 0, 0, 0, 0, 0, 0, 0, 0, 5>>

NameLo == <<"l", "o">>
NameFoo == <<"f", "o", "o">>
NameFooUpperDot == <<"F", "O", "O", ".">>
NameBar == <<"b", "a", "r">>
NameSome == <<"s", "h">>

\* "127.0.0.1 lo\n10.0.0.5 foo bar\n"
FileA ==
    [data |-> << RecordLine(LoopbackIP, <<NameLo>>),
                 RecordLine(FooIP, <<NameFoo, NameBar>>) >>,
     size |-> 30]

\* "127.0.0.1 lo\n10.0.0.5 bar foo\n": the size of FileA, other content.
FileB ==
    [data |-> << RecordLine(LoopbackIP, <<NameLo>>),
                 RecordLine(FooIP, <<NameBar, NameFoo>>) >>,
     size |-> 30]

\* "# hosts\n\nbad-ip sh\n10.0.0.5\n2001:db8::5 FOO.\n10.0.0.5 foo\n"
FileC ==
    [data |-> << CommentLine,
                 BlankLine,
                 RecordLine(BadIP, <<NameSome>>),
                 RecordLine(FooIP, <<>>),
                 RecordLine(SixIP, <<NameFooUpperDot>>),
                 RecordLine(FooIP, <<NameFoo>>) >>,
     size |-> 58]

Files == {FileA, FileB, FileC}

(* -------------------------------- parser ------------------------------- *)
\* newHostlist(data): one entry per hostname of every record line whose
\* address parses, in file order; hostnames lower-cased and without their
\* trailing dot.

ParseLine(line) ==
    IF line.kind # "record" \/ line.ip = BadIP \/ Len(line.names) = 0
    THEN <<>>
    ELSE [i \in 1..Len(line.names) |->
             [domain |-> TrimSuffixDot(ToLower(line.names[i])), ip |-> line.ip]]

RECURSIVE ParseLines(_, _)
ParseLines(data, i) ==
    IF i > Len(data) THEN <<>>
    ELSE ParseLine(data[i]) \o ParseLines(data, i + 1)

newHostlist(data) == ParseLines(data, 1)

(* -------------------------------- queries ------------------------------ *)

NameFooDot == <<"f", "o", "o", ".">>

\* Arguments of FindHosts calls.
HostQueries == {NameFooDot, NameFooUpperDot}

\* Arguments of FindReverse calls.
ReverseQueries ==
    {ReverseAddr(IPString(FooIP)), ReverseAddr(IPString(SixIP))}

(* -------------------------------- state -------------------------------- *)

VARIABLES
    file,        \* the hosts file on disk: [data, mtime, size]
    writes,      \* number of rewrites of the file so far
    path,        \* argument path of NewHostsfile
    config,      \* argument config of NewHostsfile: [Poll, Verbose]
    hosts,       \* h.hosts, the installed table
    hfile,       \* h.file: [size, path, mtime]
    lock,        \* h.hostMutex: [writer, readers]
    pc,          \* program counters of NewHostsfile and monitorHostEntries
    ldata,       \* data read by loadHostEntries, per calling goroutine
    ret,         \* what NewHostsfile returned: [inst, err]
    pl,          \* locals of monitorHostEntries: [hf, mtime, size, err]
    parseCount,  \* number of newHostlist calls so far
    initStat,    \* mtime and size of the file when the initial load read it
    rd           \* locals of the lookup goroutines

vars == <<file, writes, path, config, hosts, hfile, lock, pc, ldata, ret, pl,
          parseCount, initStat, rd>>

ZeroTime == 0
Paths == {"", "/etc/hosts"}
PollValues == {-1, 0, 1}

\* The zero value of h.file.
ZeroFile == [size |-> 0, path |-> "", mtime |-> ZeroTime]

NoData == <<>>
NoStat == [mtime |-> ZeroTime, size |-> 0]
IdleReader ==
    [pc |-> "idle", kind |-> "none", arg |-> <<>>, name |-> <<>>,
     table |-> <<>>, out |-> <<>>]

Init ==
    /\ \E f \in Files : file = [data |-> f.data, mtime |-> 1, size |-> f.size]
    /\ writes = 0
    /\ path \in Paths
    /\ config \in [Poll : PollValues, Verbose : BOOLEAN]
    /\ hosts = <<>>
    /\ hfile = ZeroFile
    /\ lock = [writer |-> "none", readers |-> {}]
    /\ pc = [ctor |-> "start", poll |-> "none"]
    /\ ldata = [ctor |-> NoData, poll |-> NoData]
    /\ ret = [inst |-> FALSE, err |-> "pending"]
    /\ pl = [hf |-> ZeroFile, mtime |-> ZeroTime, size |-> 0, err |-> "nil"]
    /\ parseCount = 0
    /\ initStat = NoStat
    /\ rd = [r \in Readers |-> IdleReader]

(* ------------------------------ the file ------------------------------- *)
\* Another process rewrites the file.  The modification time never goes
\* back, and a rewrite that changes the content changes the modification
\* time or the size.

FileWrite ==
    /\ writes < MaxWrites
    /\ \E f \in Files, m \in {file.mtime, file.mtime + 1} :
          /\ m # file.mtime \/ f.size # file.size
          /\ file' = [data |-> f.data, mtime |-> m, size |-> f.size]
    /\ writes' = writes + 1
    /\ UNCHANGED <<path, config, hosts, hfile, lock, pc, ldata, ret, pl,
                   parseCount, initStat, rd>>

(* ------------------------------ the mutex ------------------------------ *)
\* sync.RWMutex: Lock waits until no goroutine holds the mutex; RLock waits
\* until no writer holds it.

\* Mutant: Lock does not wait for the readers.
CanLockIgnoringReaders == lock.writer = "none"

CanLock == lock.writer = "none" /\ lock.readers = {}
CanRLock == lock.writer = "none"

(* --------------------------- loadHostEntries --------------------------- *)
\* Called by NewHostsfile (t = "ctor") and by monitorHostEntries
\* (t = "poll").

\* Mutant: the mutex is taken before the file is read.
LoadReadOkUnderLock(t) ==
    /\ pc[t] = "load_read"
    /\ lock.writer = "none" /\ lock.readers = {}
    /\ lock' = [lock EXCEPT !.writer = t]
    /\ ldata' = [ldata EXCEPT ![t] = file.data]
    /\ pc' = [pc EXCEPT ![t] = "load_install"]
    /\ initStat' = IF t = "ctor" THEN [mtime |-> file.mtime, size |-> file.size]
                                 ELSE initStat
    /\ UNCHANGED <<file, writes, path, config, hosts, hfile, ret, pl,
                   parseCount, rd>>

\* ioutil.ReadFile succeeds.
LoadReadOk(t) ==
    /\ pc[t] = "load_read"
    /\ ldata' = [ldata EXCEPT ![t] = file.data]
    /\ pc' = [pc EXCEPT ![t] = "load_lock"]
    /\ initStat' = IF t = "ctor" THEN [mtime |-> file.mtime, size |-> file.size]
                                 ELSE initStat
    /\ UNCHANGED <<file, writes, path, config, hosts, hfile, lock, ret, pl,
                   parseCount, rd>>

\* Mutant: the table is assigned from the (nil) data before the error is
\* looked at.
LoadReadFailClearsTable(t) ==
    /\ pc[t] = "load_read"
    /\ pc' = [pc EXCEPT ![t] = IF t = "ctor" THEN "failed" ELSE "bl_lock"]
    /\ ret' = IF t = "ctor" THEN [inst |-> FALSE, err |-> "read"] ELSE ret
    /\ pl' = IF t = "poll" THEN [pl EXCEPT !.err = "read"] ELSE pl
    /\ hosts' = newHostlist(NoData)
    /\ UNCHANGED <<file, writes, path, config, hfile, lock, ldata,
                   parseCount, initStat, rd>>

\* Mutant: NewHostsfile starts the poll loop before it looks at the error.
LoadReadFailStillPolls(t) ==
    /\ pc[t] = "load_read"
    /\ pc' = IF t = "ctor"
             THEN [ctor |-> "failed",
                   poll |-> IF config.Poll > 0 THEN "init" ELSE pc.poll]
             ELSE [pc EXCEPT ![t] = "bl_lock"]
    /\ ret' = IF t = "ctor" THEN [inst |-> FALSE, err |-> "read"] ELSE ret
    /\ pl' = IF t = "poll" THEN [pl EXCEPT !.err = "read"] ELSE pl
    /\ UNCHANGED <<file, writes, path, config, hosts, hfile, lock, ldata,
                   parseCount, initStat, rd>>

\* ioutil.ReadFile fails: loadHostEntries returns the error.  NewHostsfile
\* returns (nil, err); monitorHostEntries logs it and goes on to the
\* baseline update.
LoadReadFail(t) ==
    /\ pc[t] = "load_read"
    /\ pc' = [pc EXCEPT ![t] = IF t = "ctor" THEN "failed" ELSE "bl_lock"]
    /\ ret' = IF t = "ctor" THEN [inst |-> FALSE, err |-> "read"] ELSE ret
    /\ pl' = IF t = "poll" THEN [pl EXCEPT !.err = "read"] ELSE pl
    /\ UNCHANGED <<file, writes, path, config, hosts, hfile, lock, ldata,
                   parseCount, initStat, rd>>

\* h.hostMutex.Lock()
LoadLock(t) ==
    /\ pc[t] = "load_lock"
    /\ CanLock
    /\ lock' = [lock EXCEPT !.writer = t]
    /\ pc' = [pc EXCEPT ![t] = "load_install"]
    /\ UNCHANGED <<file, writes, path, config, hosts, hfile, ldata, ret, pl,
                   parseCount, initStat, rd>>

\* Mutant: the Unlock after the assignment is missing.
LoadInstallNoUnlock(t) ==
    /\ pc[t] = "load_install"
    /\ hosts' = newHostlist(ldata[t])
    /\ parseCount' = parseCount + 1
    /\ ldata' = [ldata EXCEPT ![t] = NoData]
    /\ pc' = [pc EXCEPT ![t] = IF t = "ctor" THEN "spawn" ELSE "bl_lock"]
    /\ UNCHANGED <<file, writes, path, config, hfile, lock, ret, pl,
                   initStat, rd>>

\* h.hosts = newHostlist(data); h.hostMutex.Unlock(); return nil
LoadInstall(t) ==
    /\ pc[t] = "load_install"
    /\ hosts' = newHostlist(ldata[t])
    /\ parseCount' = parseCount + 1
    /\ lock' = [lock EXCEPT !.writer = "none"]
    /\ ldata' = [ldata EXCEPT ![t] = NoData]
    /\ pc' = [pc EXCEPT ![t] = IF t = "ctor" THEN "spawn" ELSE "bl_lock"]
    /\ UNCHANGED <<file, writes, path, config, hfile, ret, pl, initStat, rd>>

(* ------------------------------ NewHostsfile --------------------------- *)

\* Mutant: no early return for the empty path.
CtorStartNoEmptyPath ==
    /\ pc.ctor = "start"
    /\ hfile' = [hfile EXCEPT !.path = path]
    /\ pc' = [pc EXCEPT !.ctor = "load_read"]
    /\ UNCHANGED <<file, writes, path, config, hosts, ret, lock, ldata, pl,
                   parseCount, initStat, rd>>

\* h := Hostsfile{config: config}; with an empty path the table is a new
\* empty hostlist and the instance is returned; otherwise h.file.path is
\* set and loadHostEntries is called.
CtorStart ==
    /\ pc.ctor = "start"
    /\ IF path = ""
       THEN /\ hosts' = <<>>
            /\ ret' = [inst |-> TRUE, err |-> "nil"]
            /\ pc' = [pc EXCEPT !.ctor = "done"]
            /\ UNCHANGED hfile
       ELSE /\ hfile' = [hfile EXCEPT !.path = path]
            /\ pc' = [pc EXCEPT !.ctor = "load_read"]
            /\ UNCHANGED <<hosts, ret>>
    /\ UNCHANGED <<file, writes, path, config, lock, ldata, pl, parseCount,
                   initStat, rd>>

\* Mutant: the poll loop is started for Poll >= 0.
CtorSpawnPollNonNegative ==
    /\ pc.ctor = "spawn"
    /\ pc' = [ctor |-> IF config.Verbose THEN "log" ELSE "done",
              poll |-> IF config.Poll >= 0 THEN "init" ELSE pc.poll]
    /\ ret' = IF config.Verbose THEN ret ELSE [inst |-> TRUE, err |-> "nil"]
    /\ UNCHANGED <<file, writes, path, config, hosts, hfile, lock, ldata, pl,
                   parseCount, initStat, rd>>

\* if h.config.Poll > 0 { go h.monitorHostEntries(h.config.Poll) }
CtorSpawn ==
    /\ pc.ctor = "spawn"
    /\ pc' = [ctor |-> IF config.Verbose THEN "log" ELSE "done",
              poll |-> IF config.Poll > 0 THEN "init" ELSE pc.poll]
    /\ ret' = IF config.Verbose THEN ret ELSE [inst |-> TRUE, err |-> "nil"]
    /\ UNCHANGED <<file, writes, path, config, hosts, hfile, lock, ldata, pl,
                   parseCount, initStat, rd>>

\* The verbose listing reads h.file.path and *h.hosts without the mutex,
\* then the instance is returned.
CtorLog ==
    /\ pc.ctor = "log"
    /\ pc' = [pc EXCEPT !.ctor = "done"]
    /\ ret' = [inst |-> TRUE, err |-> "nil"]
    /\ UNCHANGED <<file, writes, path, config, hosts, hfile, lock, ldata, pl,
                   parseCount, initStat, rd>>

(* --------------------------- monitorHostEntries ------------------------ *)

\* hf := h.file; if hf.path == "" { return }
PollInit ==
    /\ pc.poll = "init"
    /\ pl' = [pl EXCEPT !.hf = hfile]
    /\ pc' = [pc EXCEPT !.poll = IF hfile.path = "" THEN "exited" ELSE "wait"]
    /\ UNCHANGED <<file, writes, path, config, hosts, hfile, lock, ldata, ret,
                   parseCount, initStat, rd>>

\* A tick arrives and hostsFileMetadata fails: log, continue.
PollStatFail ==
    /\ pc.poll = "wait"
    /\ pl' = [pl EXCEPT !.err = "stat"]
    /\ UNCHANGED <<file, writes, path, config, hosts, hfile, lock, pc, ldata,
                   ret, parseCount, initStat, rd>>

\* Mutant: the size comparison is inverted.
NoUpdatesSizeDiffers(hf, mtime, size) == hf.mtime = mtime /\ hf.size # size

\* hf.mtime.Equal(mtime) && hf.size == size
NoUpdates(hf, mtime, size) == hf.mtime = mtime /\ hf.size = size

\* A tick arrives and hostsFileMetadata returns the file's mtime and size:
\* continue when they equal the baseline, else call loadHostEntries.
PollStatOk ==
    /\ pc.poll = "wait"
    /\ pl' = [pl EXCEPT !.mtime = file.mtime, !.size = file.size, !.err = "nil"]
    /\ pc' = [pc EXCEPT !.poll =
                 IF NoUpdates(pl.hf, file.mtime, file.size)
                 THEN "wait" ELSE "load_read"]
    /\ UNCHANGED <<file, writes, path, config, hosts, hfile, lock, ldata, ret,
                   parseCount, initStat, rd>>

\* h.hostMutex.Lock() of the baseline update
PollBaselineLock ==
    /\ pc.poll = "bl_lock"
    /\ CanLock
    /\ lock' = [lock EXCEPT !.writer = "poll"]
    /\ pc' = [pc EXCEPT !.poll = "bl_write"]
    /\ UNCHANGED <<file, writes, path, config, hosts, hfile, ldata, ret, pl,
                   parseCount, initStat, rd>>

\* Mutant: the baseline is taken from a new stat of the file, after the
\* reload, instead of the tick's mtime and size.
PollBaselineWriteRestat ==
    /\ pc.poll = "bl_write"
    /\ hfile' = [hfile EXCEPT !.mtime = file.mtime, !.size = file.size]
    /\ pl' = [pl EXCEPT !.hf = hfile']
    /\ lock' = [lock EXCEPT !.writer = "none"]
    /\ pc' = [pc EXCEPT !.poll = "wait"]
    /\ UNCHANGED <<file, writes, path, config, hosts, ldata, ret, parseCount,
                   initStat, rd>>

\* h.file.mtime = mtime; h.file.size = size; hf = h.file;
\* h.hostMutex.Unlock(); back to the timer.
PollBaselineWrite ==
    /\ pc.poll = "bl_write"
    /\ hfile' = [hfile EXCEPT !.mtime = pl.mtime, !.size = pl.size]
    /\ pl' = [pl EXCEPT !.hf = hfile']
    /\ lock' = [lock EXCEPT !.writer = "none"]
    /\ pc' = [pc EXCEPT !.poll = "wait"]
    /\ UNCHANGED <<file, writes, path, config, hosts, ldata, ret, parseCount,
                   initStat, rd>>

(* ------------------------- FindHosts, FindReverse ---------------------- *)
\* A lookup goroutine calls the returned instance.

\* name = strings.TrimSuffix(name, ".")
FindHostsCall(r, name) ==
    /\ ret.inst
    /\ rd[r].pc = "idle"
    /\ rd' = [rd EXCEPT ![r] = [IdleReader EXCEPT !.pc = "rlock",
                 !.kind = "hosts", !.arg = name, !.name = TrimSuffixDot(name)]]
    /\ UNCHANGED <<file, writes, path, config, hosts, hfile, lock, pc, ldata,
                   ret, pl, parseCount, initStat>>

FindReverseCall(r, name) ==
    /\ ret.inst
    /\ rd[r].pc = "idle"
    /\ rd' = [rd EXCEPT ![r] = [IdleReader EXCEPT !.pc = "rlock",
                 !.kind = "reverse", !.arg = name, !.name = name]]
    /\ UNCHANGED <<file, writes, path, config, hosts, hfile, lock, pc, ldata,
                   ret, pl, parseCount, initStat>>

\* h.hostMutex.RLock(); the range expression *h.hosts is evaluated once.
LookupRLock(r) ==
    /\ rd[r].pc = "rlock"
    /\ CanRLock
    /\ lock' = [lock EXCEPT !.readers = @ \cup {r}]
    /\ rd' = [rd EXCEPT ![r].pc = "scan", ![r].table = hosts]
    /\ UNCHANGED <<file, writes, path, config, hosts, hfile, pc, ldata, ret,
                   pl, parseCount, initStat>>

\* The loop of FindHosts over the table from entry i on: the addresses of
\* the entries whose domain equals name, appended in table order.
RECURSIVE HostsLoop(_, _, _)
HostsLoop(table, name, i) ==
    IF i > Len(table) THEN <<>>
    ELSE (IF table[i].domain = name THEN <<table[i].ip>> ELSE <<>>)
         \o HostsLoop(table, name, i + 1)

\* Mutant: the loop of FindReverse without its break, the last match wins.
RECURSIVE ReverseLoopNoBreak(_, _, _)
ReverseLoopNoBreak(table, name, i) ==
    IF i > Len(table) THEN EmptyString
    ELSE LET rest == ReverseLoopNoBreak(table, name, i + 1) IN
         IF rest # EmptyString THEN rest
         ELSE IF ReverseAddr(IPString(table[i].ip)) = name
              THEN Fqdn(table[i].domain)
              ELSE EmptyString

\* The loop of FindReverse over the table from entry i on: dns.Fqdn of the
\* domain of the first entry whose reverse name equals name (break), the
\* empty string when the loop ends without one.
RECURSIVE ReverseLoop(_, _, _)
ReverseLoop(table, name, i) ==
    IF i > Len(table) THEN EmptyString
    ELSE IF ReverseAddr(IPString(table[i].ip)) = name
         THEN Fqdn(table[i].domain)
         ELSE ReverseLoop(table, name, i + 1)

\* Mutant: the lookup reuses the table's storage for its result and leaves
\* the installed table truncated.
LookupScanTruncates(r) ==
    /\ rd[r].pc = "scan"
    /\ rd' = [rd EXCEPT ![r].pc = "ret",
                        ![r].out = IF rd[r].kind = "hosts"
                                   THEN HostsLoop(rd[r].table, rd[r].name, 1)
                                   ELSE ReverseLoop(rd[r].table, rd[r].name, 1)]
    /\ hosts' = <<>>
    /\ UNCHANGED <<file, writes, path, config, hfile, lock, pc, ldata,
                   ret, pl, parseCount, initStat>>

\* The loop runs on the table the range expression gave, read lock held.
LookupScan(r) ==
    /\ rd[r].pc = "scan"
    /\ rd' = [rd EXCEPT ![r].pc = "ret",
                        ![r].out = IF rd[r].kind = "hosts"
                                   THEN HostsLoop(rd[r].table, rd[r].name, 1)
                                   ELSE ReverseLoop(rd[r].table, rd[r].name, 1)]
    /\ UNCHANGED <<file, writes, path, config, hosts, hfile, lock, pc, ldata,
                   ret, pl, parseCount, initStat>>

\* The deferred h.hostMutex.RUnlock() runs and the call returns out, nil.
LookupReturn(r) ==
    /\ rd[r].pc = "ret"
    /\ lock' = [lock EXCEPT !.readers = @ \ {r}]
    /\ rd' = [rd EXCEPT ![r] = IdleReader]
    /\ UNCHANGED <<file, writes, path, config, hosts, hfile, pc, ldata, ret,
                   pl, parseCount, initStat>>

(* ---------------------------- specification ---------------------------- *)

Next ==
    \/ FileWrite
    \/ CtorStart
    \/ CtorSpawn
    \/ CtorLog
    \/ \E t \in {"ctor", "poll"} : LoadReadOk(t)
    \/ \E t \in {"ctor", "poll"} : LoadReadFail(t)
    \/ \E t \in {"ctor", "poll"} : LoadLock(t)
    \/ \E t \in {"ctor", "poll"} : LoadInstall(t)
    \/ PollInit
    \/ PollStatFail
    \/ PollStatOk
    \/ PollBaselineLock
    \/ PollBaselineWrite
    \/ \E r \in Readers, n \in HostQueries : FindHostsCall(r, n)
    \/ \E r \in Readers, n \in ReverseQueries : FindReverseCall(r, n)
    \/ \E r \in Readers : LookupRLock(r)
    \/ \E r \in Readers : LookupScan(r)
    \/ \E r \in Readers : LookupReturn(r)

Spec == Init /\ [][Next]_vars

\* Fairness: the goroutines keep running, the timer keeps ticking, stat and
\* read succeed again and again, and a goroutine waiting for the mutex gets
\* it.
LiveSpec ==
    /\ Spec
    /\ WF_vars(CtorStart \/ CtorSpawn \/ CtorLog)
    /\ \A t \in {"ctor", "poll"} :
          /\ SF_vars(LoadReadOk(t))
          /\ SF_vars(LoadLock(t))
          /\ WF_vars(LoadInstall(t))
    /\ WF_vars(PollInit)
    /\ SF_vars(PollStatOk)
    /\ SF_vars(PollBaselineLock)
    /\ WF_vars(PollBaselineWrite)
    /\ \A r \in Readers :
          WF_vars(LookupRLock(r) \/ LookupScan(r) \/ LookupReturn(r))

(* -------------------------------- claims ------------------------------- *)

\* A lookup is between its RLock and its RUnlock.
Scanning(r) == rd[r].pc \in {"scan", "ret"}

\* C1: a lookup scans exactly one table.  From its RLock to its RUnlock no
\* writer holds the mutex and the table the lookup ranges over is the
\* installed table: no swap happens during the scan, so every entry the
\* lookup observes belongs to the one table installed throughout it.
C1_OneTable ==
    \A r \in Readers :
        Scanning(r) =>
            /\ r \in lock.readers
            /\ lock.writer = "none"
            /\ rd[r].table = hosts

\* A lookup has scanned the old table while a reload holding another table
\* waits for the mutex.
C1_Witness ==
    \E r \in Readers :
        /\ rd[r].pc = "ret"
        /\ rd[r].out # <<>>
        /\ pc.poll = "load_lock"
        /\ newHostlist(ldata.poll) # hosts

\* C2 (as claimed): after a successful construction with a path and a
\* positive poll interval, while the file has never been rewritten, the
\* parser has been invoked exactly once and the table is the parse of the
\* file.
C2_ParserOnce ==
    (path # "" /\ config.Poll > 0 /\ ret.inst /\ writes = 0) =>
        /\ parseCount = 1
        /\ hosts = newHostlist(file.data)

\* C3 (as claimed): after a successful initial load and until the poll loop
\* has taken its first copy of the baseline, h.file.mtime and h.file.size
\* are the file's modification time and size at the initial load.
C3_BaselineAtInit ==
    (path # "" /\ pc.ctor \in {"spawn", "log", "done"}
               /\ pc.poll \in {"none", "init"}) =>
        /\ hfile.mtime = initStat.mtime
        /\ hfile.size = initStat.size

\* C4 (as claimed): from the failure of the reload's file read until the
\* next tick, no step changes the baseline, neither h.file nor the poll
\* loop's copy hf.
C4_BaselineKept ==
    [][(pl.err = "read" /\ pl'.err = "read") =>
          (hfile' = hfile /\ pl'.hf = pl.hf)]_vars

\* C5: on a tick that fails (stat error or read error of the reload), no
\* step of the tick changes the installed table, the poll loop does not
\* exit, and it goes back to the timer, waiting at most for readers at the
\* mutex (no writer holds it).
C5_FailedTickKeepsTable ==
    [][pl'.err # "nil" =>
          /\ hosts' = hosts
          /\ pc'.poll \in {"wait", "bl_lock", "bl_write"}
          /\ (pc'.poll = "bl_lock" => lock'.writer = "none")]_vars

\* A tick whose reload failed has ended: the loop waits for the next tick
\* with the table still installed.
C5_Witness ==
    /\ pc.poll = "wait"
    /\ pl.err = "read"
    /\ hosts # <<>>
    /\ hosts # newHostlist(file.data)

\* C6 (as claimed): once the file has been rewritten and stays fixed, and
\* the poll loop runs, the installed table eventually is the parse of the
\* file's content.
C6_EventuallyReloaded ==
    (writes = MaxWrites /\ pc.poll = "wait") ~> (hosts = newHostlist(file.data))

\* The indices of the entries a query selects, and the addresses of the
\* selected entries in table order.
Selected(table, q) == {i \in 1..Len(table) : table[i].domain = q}

IsAddressesOf(out, table, S) ==
    /\ Len(out) = Cardinality(S)
    /\ \A i \in S : out[Cardinality({j \in S : j <= i})] = table[i].ip

\* C7 (as claimed): FindHosts returns the addresses of the entries whose
\* domain equals the query lower-cased and without its trailing dot, in
\* table order.
C7_FindHostsNormalised ==
    \A r \in Readers :
        (rd[r].pc = "ret" /\ rd[r].kind = "hosts") =>
            IsAddressesOf(rd[r].out, hosts,
                          Selected(hosts, TrimSuffixDot(ToLower(rd[r].arg))))

\* The indices of the entries whose address maps to a reverse name.
ReverseMatches(table, q) ==
    {i \in 1..Len(table) : ReverseAddr(IPString(table[i].ip)) = q}

\* C8: FindReverse returns the domain, with the trailing dot added, of the
\* entry of lowest index whose address maps to the query, and the empty
\* string when no entry does.
C8_FindReverseFirst ==
    \A r \in Readers :
        (rd[r].pc = "ret" /\ rd[r].kind = "reverse") =>
            LET M == ReverseMatches(hosts, rd[r].arg) IN
            IF M = {} THEN rd[r].out = EmptyString
            ELSE \E i \in M :
                    /\ \A j \in M : i <= j
                    /\ rd[r].out = hosts[i].domain \o <<".">>

\* A reverse lookup has returned from a table where two entries of
\* different domains share the queried address.
C8_Witness ==
    \E r \in Readers :
        /\ rd[r].pc = "ret"
        /\ rd[r].kind = "reverse"
        /\ \E i, j \in ReverseMatches(hosts, rd[r].arg) :
              i < j /\ hosts[i].domain # hosts[j].domain

\* C9: with an empty path construction returns the instance with a nil
\* error, the table is empty in every state, no poll loop exists, nothing
\* is read, stat-ed or parsed, and every lookup returns an empty result,
\* whatever the poll interval.
C9_EmptyPath ==
    path = "" =>
        /\ pc.ctor \in {"start", "done"}
        /\ (pc.ctor = "done" => ret = [inst |-> TRUE, err |-> "nil"])
        /\ hosts = <<>>
        /\ pc.poll = "none"
        /\ parseCount = 0
        /\ ldata = [ctor |-> NoData, poll |-> NoData]
        /\ pl.hf = ZeroFile /\ pl.mtime = ZeroTime /\ pl.err = "nil"
        /\ \A r \in Readers : rd[r].pc = "ret" => rd[r].out = <<>>

\* A lookup has returned on an instance built with an empty path and a
\* positive poll interval.
C9_Witness ==
    /\ path = ""
    /\ config.Poll > 0
    /\ \E r \in Readers : rd[r].pc = "ret"

\* C10: when the initial read fails, NewHostsfile returns the read error
\* and no instance, no poll loop is started, and nothing is installed or
\* looked up.
C10_InitialReadFails ==
    (pc.ctor = "failed" \/ ret.err = "read") =>
        /\ path # ""
        /\ pc.ctor = "failed"
        /\ ret = [inst |-> FALSE, err |-> "read"]
        /\ pc.poll = "none"
        /\ parseCount = 0
        /\ \A r \in Readers : rd[r].pc = "idle"

\* The initial read has failed with polling configured.
C10_Witness ==
    /\ pc.ctor = "failed"
    /\ config.Poll > 0

\* C11: the poll loop has been started exactly when the initial load
\* succeeded with a non-empty path and a poll interval above 0, and it then
\* runs for good (it never returns); with an interval of 0 or less there is
\* no poll loop and the table installed at construction is the only table
\* ever installed, whatever happens to the file.
C11_OnePollLoop ==
    /\ (pc.poll # "none") <=>
          (path # "" /\ config.Poll > 0 /\ pc.ctor \in {"log", "done"})
    /\ pc.poll # "exited"
    /\ (config.Poll <= 0 /\ path # "" /\ pc.ctor \in {"log", "done"}) =>
          (parseCount = 1 /\ lock.writer = "none" /\ hfile.mtime = ZeroTime)

\* No polling is configured, the file has been rewritten after the
\* construction, and the table is still the one installed at construction.
C11_Witness ==
    /\ path # ""
    /\ config.Poll <= 0
    /\ pc.ctor = "done"
    /\ writes = MaxWrites
    /\ hosts # newHostlist(file.data)

\* The goroutines that are reading h.hosts without holding the mutex: the
\* verbose listing of NewHostsfile (line 58).
UnlockedTableReaders == IF pc.ctor = "log" THEN {"ctor"} ELSE {}

\* The goroutines that are reading h.file.mtime or h.file.size without
\* holding the mutex: hf := h.file of monitorHostEntries (line 109).
UnlockedBaselineReaders == IF pc.poll = "init" THEN {"poll"} ELSE {}

\* The goroutines about to assign h.hosts, and those about to assign
\* h.file.mtime and h.file.size.
TableWriters == {t \in {"ctor", "poll"} : pc[t] = "load_install"}
BaselineWriters == IF pc.poll = "bl_write" THEN {"poll"} ELSE {}

\* C12 (as claimed): no goroutine is about to write the table reference or
\* the baseline while another goroutine reads it without the mutex.
C12_LockDiscipline ==
    /\ \A w \in TableWriters : UnlockedTableReaders \ {w} = {}
    /\ \A w \in BaselineWriters : UnlockedBaselineReaders \ {w} = {}

\* C13 (as claimed): the parse of a reload runs without the write lock
\* held.
C13_ParseOutsideLock ==
    [][parseCount' # parseCount => lock.writer = "none"]_vars

\* C13 (amended): the file read of a load runs without the mutex held by
\* the loading goroutine; the parse and the assignment of the table run
\* with the write lock held and no reader inside; the baseline is updated
\* with the write lock held; the write lock is held at no other point.
C13_ReadOutsideParseInside ==
    [][/\ \A t \in {"ctor", "poll"} :
             /\ (pc[t] = "load_read" /\ pc'[t] # "load_read") =>
                   (lock.writer # t /\ lock'.writer # t)
             /\ (lock.writer = t) <=> (pc[t] \in {"load_install", "bl_write"})
       /\ (parseCount' # parseCount \/ hosts' # hosts) =>
             (lock.writer \in {"ctor", "poll"} /\ lock.readers = {})
       /\ (hfile'.mtime # hfile.mtime \/ hfile'.size # hfile.size) =>
             (lock.writer = "poll" /\ lock.readers = {})]_vars

\* A lookup has run its scan under the read lock while a reload is reading
\* the file.
C13_Witness ==
    /\ pc.poll = "load_read"
    /\ \E r \in Readers : rd[r].pc = "ret" /\ r \in lock.readers

\* The step of goroutine t that releases the write lock.
WriteUnlock(t) ==
    /\ LoadInstall(t) \/ (t = "poll" /\ PollBaselineWrite)
    /\ lock'.writer = "none"

StatOkStep ==
    /\ pc.poll = "wait"
    /\ pc'.poll # pc.poll \/ pl' # pl
    /\ pl'.err = "nil"

\* C15: a tick whose stat returns the mtime and size of the baseline the
\* loop holds does nothing: the loop goes back to the timer, nothing is
\* read or parsed, the mutex is untouched, the table and both copies of the
\* baseline are as before.
C15_UnchangedTickIsNoop ==
    [][(StatOkStep /\ pl.hf.mtime = file.mtime /\ pl.hf.size = file.size) =>
          /\ pc'.poll = "wait"
          /\ ldata' = ldata
          /\ parseCount' = parseCount
          /\ lock' = lock
          /\ hosts' = hosts
          /\ hfile' = hfile
          /\ pl'.hf = pl.hf]_vars

\* A tick has found no updates although the table is not the parse of the
\* file (the tick before it failed to read the file).
C15_Witness ==
    /\ pc.poll = "wait"
    /\ pl.err = "nil"
    /\ pl.hf.mtime = file.mtime /\ pl.hf.size = file.size
    /\ pl.mtime = file.mtime /\ pl.size = file.size
    /\ hosts # newHostlist(file.data)

\* C16: in a tick whose stat showed a change and whose reload succeeded,
\* the table installed is the parse of the content the tick read, it stays
\* installed to the end of the tick, and the tick ends with h.file and hf
\* holding the mtime and size of the tick's stat.
C16_ReloadedTick ==
    [][(pl.err = "nil" /\ pl'.err = "nil") =>
          /\ (pc.poll = "load_install" /\ pc'.poll # "load_install") =>
                (hosts' = newHostlist(ldata.poll) /\ pc'.poll = "bl_lock")
          /\ (pc.poll \in {"bl_lock", "bl_write"}) => hosts' = hosts
          /\ (pc.poll = "bl_write" /\ pc'.poll # "bl_write") =>
                /\ pc'.poll = "wait"
                /\ hfile'.mtime = pl.mtime /\ hfile'.size = pl.size
                /\ pl'.hf = hfile'
                /\ pl'.mtime = pl.mtime /\ pl'.size = pl.size]_vars

\* A reloading tick has ended after the file was rewritten between its
\* stat and its read: the table is the parse of the new content and the
\* baseline is the older stat.
C16_Witness ==
    /\ pc.poll = "wait"
    /\ pl.err = "nil"
    /\ parseCount >= 2
    /\ hosts = newHostlist(file.data)
    /\ hfile.mtime = pl.mtime /\ hfile.size = pl.size
    /\ (hfile.mtime # file.mtime \/ hfile.size # file.size)

\* C17: a step of a lookup changes neither the table, the baseline nor the
\* poll loop's copy of it; the table changes only by a load installing the
\* parse of the data it read; the baseline is written only by NewHostsfile
\* (the path) and by the poll loop (mtime and size).
C17_LookupsReadOnly ==
    [][/\ rd' # rd => (hosts' = hosts /\ hfile' = hfile /\ pl' = pl)
       /\ hosts' # hosts =>
             \E t \in {"ctor", "poll"} :
                 /\ pc[t] = "load_install"
                 /\ hosts' = newHostlist(ldata[t])
       /\ hfile' # hfile => (pc.ctor = "start" \/ pc.poll = "bl_write")]_vars

\* A lookup has returned entries from a table that a reload installed.
C17_Witness ==
    /\ parseCount >= 2
    /\ hosts # newHostlist(file.data)
    /\ \E r \in Readers :
          rd[r].pc = "ret" /\ rd[r].out # <<>> /\ rd[r].table = hosts

\* C18 (as claimed): whenever the poll loop waits for a tick with a
\* baseline equal to the file's mtime and size, the table is the parse of
\* the file's content.
C18_BaselineMeansLoaded ==
    (pc.poll = "wait" /\ pl.hf.mtime = file.mtime /\ pl.hf.size = file.size) =>
        hosts = newHostlist(file.data)

====
